---- MODULE Spec2Model ----
(***************************************************************************)
(* Model of app/main.py of bonnemai/curvefitter: the shared swap-curve     *)
(* state, the Mutator (_sample_raw_rates), the Fitter (_fit_curve), the    *)
(* Snapshot Builder (_build_curve_snapshot) and the stream endpoint        *)
(* (stream_swap_curves / sse_gen).                                         *)
(*                                                                         *)
(* Numbers.  The program computes in IEEE-754 binary64.  The model keeps   *)
(* the shape of that arithmetic (binary significand, round to nearest,     *)
(* ties to even, one rounding per operation) with a significand of         *)
(* Precision bits instead of 53 and an unbounded exponent.  A float is a   *)
(* pair <<m, e>> standing for m * 2^e, kept canonical: m odd, or <<0, 0>>. *)
(***************************************************************************)
EXTENDS Integers, Sequences, FiniteSets, TLC

\* ------------------------------------------------------------------ bounds
\* Bits of significand of the model's floats (binary64 has 53).
Precision == 5
\* How many points of TENOR_YEARS (the first ones) the curve has (the program: 11).
NumTenors == 3
\* Mutator calls after which no consumer starts another tick.
MaxCalls == 2
\* Simultaneous stream consumers.
NumConsumers == 2

\* ------------------------------------------------------- float arithmetic
RECURSIVE Norm(_, _)
Norm(m, e) ==
    IF m = 0 THEN <<0, 0>>
    ELSE IF m % 2 = 0 THEN Norm(m \div 2, e + 1)
    ELSE <<m, e>>

RECURSIVE BitLen(_)
BitLen(n) == IF n = 0 THEN 0 ELSE 1 + BitLen(n \div 2)

Abs(n) == IF n < 0 THEN -n ELSE n

FNeg(a) == <<-a[1], a[2]>>

\* The float nearest to mag * 2^e (mag >= 0), ties to the even significand;
\* inexact says that bits below mag were already dropped (a division's remainder).
RoundMag(mag, e, inexact) ==
    LET len == BitLen(mag) IN
    IF len <= Precision THEN Norm(mag, e)
    ELSE LET s    == len - Precision
             q    == mag \div (2 ^ s)
             r    == mag % (2 ^ s)
             half == 2 ^ (s - 1)
             up   == \/ r > half
                     \/ r = half /\ (inexact \/ q % 2 = 1)
         IN  Norm(IF up THEN q + 1 ELSE q, e + s)

FRound(m, e) ==
    IF m < 0 THEN FNeg(RoundMag(-m, e, FALSE)) ELSE RoundMag(m, e, FALSE)

MinInt(a, b) == IF a < b THEN a ELSE b

\* Both floats as integers over their common (smaller) exponent.
Aligned(a, b) ==
    LET e == MinInt(a[2], b[2]) IN
    <<a[1] * (2 ^ (a[2] - e)), b[1] * (2 ^ (b[2] - e)), e>>

FAdd(a, b) == LET al == Aligned(a, b) IN FRound(al[1] + al[2], al[3])

FSub(a, b) == FAdd(a, FNeg(b))

FMul(a, b) == FRound(a[1] * b[1], a[2] + b[2])

FLess(a, b) == LET al == Aligned(a, b) IN al[1] < al[2]

FLeq(a, b) == ~FLess(b, a)

\* (m * 2^e) / n for an integer n > 0, rounded once.
FDivInt(a, n) ==
    LET mag  == Abs(a[1])
        want == Precision + 2 + BitLen(n) - BitLen(mag)
        k    == IF want > 0 THEN want ELSE 0
        big  == mag * (2 ^ k)
        res  == RoundMag(big \div n, a[2] - k, big % n # 0)
    IN  IF a[1] < 0 THEN FNeg(res) ELSE res

\* The float of the decimal literal num / den.
Dec(num, den) == FDivInt(<<num, 0>>, den)

\* np.maximum / np.minimum / Python max on floats.
FMax(a, b) == IF FLess(a, b) THEN b ELSE a
FMin(a, b) == IF FLess(b, a) THEN b ELSE a

Zero == <<0, 0>>
One == <<1, 0>>

\* ------------------------------------------------------ program constants
\* TENOR_YEARS in tenths of a year, and FITTED_GRID's size.
TenorTenths == <<5, 10, 20, 30, 40, 50, 70, 100, 150, 200, 300>>
TENOR_YEARS == [i \in 1..NumTenors |-> Dec(TenorTenths[i], 10)]
FittedGridSize == 120
\* np.linspace(0.5, 30.0, num=120)
FITTED_GRID == [i \in 1..FittedGridSize |-> Dec(595 + 295 * (i - 1), 1190)]
DefaultMinCurveRate == Dec(15, 10)
MAX_MUTATED_POINTS == 2
MAX_MUTATION_FRACTION == Dec(20, 100)
DefaultSeed == 275352
FitDegree == 4

\* _base_em_curve at the points of TENOR_YEARS, in thousandths (exp and sin
\* evaluated outside the model), each rounded to a float.
BaseMilli == <<7697, 8053, 8495, 8699, 8751, 8730, 8787, 9464, 9359, 9535, 9609>>
\* Mutant: a shape function that returns the same rate at every tenor.
_base_em_curve_Flat(n) == [i \in 1..n |-> Dec(8, 1)]
_base_em_curve(n) == [i \in 1..n |-> Dec(BaseMilli[i], 1000)]

\* None (a curve not computed yet).
None == <<>>

\* ------------------------------------------------------------ the seed
\* os.getenv("CURVE_FITTER_MUTATION_SEED", "275352"): the variable's text, or
\* the default text when it is unset.  int() of a text that is no integer
\* raises ValueError.
EnvUnset == "<unset>"
IntOfText == [t \in {"275352", "7", "42"} |->
                 CASE t = "275352" -> 275352 [] t = "7" -> 7 [] t = "42" -> 42]
SeedEnvs == {EnvUnset, "7", "42", "seven", ""}
\* Mutant: an unparsable seed falls back to 0 instead of the default.
_MUTATION_SEED_ZeroFallback(env) ==
    LET text == IF env = EnvUnset THEN "275352" ELSE env IN
    IF text \in DOMAIN IntOfText THEN IntOfText[text] ELSE 0
_MUTATION_SEED(env) ==
    LET text == IF env = EnvUnset THEN "275352" ELSE env IN
    IF text \in DOMAIN IntOfText THEN IntOfText[text] ELSE DefaultSeed

\* ------------------------------------------------------- random source
\* _mutation_rng.  kind "seeded": np.random.default_rng(seed), a deterministic
\* stream, modelled by a linear congruential generator over its state s.
\* kind "any": a source whose draws are arbitrary admissible values (the
\* tests put such a stand-in in place of the generator).
LcgModulus == 65537
LcgNext(s) == (75 * s + 74) % LcgModulus
SeededRng(seed) == [kind |-> "seeded", s |-> seed % LcgModulus]
AnyRng == [kind |-> "any", s |-> 0]

\* The deltas uniform(-MAX_MUTATION_FRACTION, MAX_MUTATION_FRACTION) is taken
\* to return: the lower end (included), -0.1 and 0.19.
DeltaSeq == <<FNeg(MAX_MUTATION_FRACTION), Dec(-10, 100), Dec(19, 100)>>
Deltas == {DeltaSeq[i] : i \in 1..Len(DeltaSeq)}

\* Each draw is a set of <<value, generator after the draw>>.
\* integers(low, high): an integer in low..high-1.
RngIntegers(rng, low, high) ==
    IF rng.kind = "seeded"
    THEN LET s == LcgNext(rng.s) IN
         {<<low + (s % (high - low)), [rng EXCEPT !.s = s]>>}
    ELSE {<<k, rng>> : k \in low..(high - 1)}

\* The j-th smallest element of a set of integers.
RECURSIVE Nth(_, _)
Nth(S, j) ==
    LET least == CHOOSE x \in S : \A y \in S : x <= y IN
    IF j = 1 THEN least ELSE Nth(S \ {least}, j - 1)

\* The sequences of `size` distinct elements of 1..n.
RECURSIVE Arrangements(_, _)
Arrangements(S, size) ==
    IF size = 0 THEN {<<>>}
    ELSE UNION {{<<x>> \o rest : rest \in Arrangements(S \ {x}, size - 1)} : x \in S}

RECURSIVE SeededChoice(_, _, _)
SeededChoice(s, S, size) ==
    IF size = 0 THEN <<<<>>, s>>
    ELSE LET s1   == LcgNext(s)
             x    == Nth(S, 1 + (s1 % Cardinality(S)))
             rest == SeededChoice(s1, S \ {x}, size - 1)
         IN  <<<<x>> \o rest[1], rest[2]>>

\* choice(n, size, replace=False): `size` distinct indices.
RngChoice(rng, n, size) ==
    IF rng.kind = "seeded"
    THEN LET got == SeededChoice(rng.s, 1..n, size) IN
         {<<got[1], [rng EXCEPT !.s = got[2]]>>}
    ELSE {<<idx, rng>> : idx \in Arrangements(1..n, size)}

\* uniform(low, high) with low = -MAX_MUTATION_FRACTION, high = +MAX_MUTATION_FRACTION.
RngUniform(rng) ==
    IF rng.kind = "seeded"
    THEN LET s == LcgNext(rng.s) IN
         {<<DeltaSeq[1 + (s % Len(DeltaSeq))], [rng EXCEPT !.s = s]>>}
    ELSE {<<d, rng>> : d \in Deltas}

\* ------------------------------------------------------------- Mutator
\* lines 89-94: the new value of one selected point.
\* 1.0 - MAX_MUTATION_FRACTION and 1.0 + MAX_MUTATION_FRACTION
LowerFactor == FSub(One, MAX_MUTATION_FRACTION)
UpperFactor == FAdd(One, MAX_MUTATION_FRACTION)
lower_bound(base_rate, floor) == FMax(FMul(base_rate, LowerFactor), floor)
upper_bound(base_rate) == FMul(base_rate, UpperFactor)
\* Mutant: the upper bound is not applied.
Clip_NoUpper(x, lo, hi) == FMax(x, lo)
\* np.clip(x, lo, hi) = minimum(maximum(x, lo), hi)
Clip(x, lo, hi) == FMin(FMax(x, lo), hi)
\* Mutant: the step restarts from the base rate.
Proposed_FromBase(current_rate, base_rate, delta) == FMul(base_rate, FAdd(One, delta))
Proposed(current_rate, base_rate, delta) == FMul(current_rate, FAdd(One, delta))
MutatedRate(current_rate, base_rate, delta, floor) ==
    Clip(Proposed(current_rate, base_rate, delta),
         lower_bound(base_rate, floor), upper_bound(base_rate))

\* -------------------------------------------------------------- Fitter
RECURSIVE FSum(_, _)
\* umr_sum: the elements added left to right, each addition rounded
\* (numpy's order for fewer than 8 elements).
FSum(x, n) == IF n = 0 THEN Zero ELSE FAdd(FSum(x, n - 1), x[n])

\* np.var(rates): mean((rates - mean(rates)) ** 2).
Var(rates) ==
    LET n    == Len(rates)
        mean == FDivInt(FSum(rates, n), n)
        sq   == [i \in 1..n |-> LET d == FSub(rates[i], mean) IN FMul(d, d)]
    IN  FDivInt(FSum(sq, n), n)

\* line 104: the Fitter's only rejection.
ZeroVariance(rates) == Var(rates) = Zero

\* Mutant: the variance test is >= 0 instead of == 0.
_fit_curve_RejectsAnyVariance(tenors, rates, grid, degree) ==
    [status |-> 400, detail |-> "Cannot fit curve without variance"]

\* _fit_curve: HTTP 400 on zero variance; otherwise np.polyfit gives degree+1
\* coefficients and np.polyval one rate per grid point.  The numbers numpy
\* computes are not modelled, only how many there are.
_fit_curve(tenors, rates, grid, degree) ==
    IF ZeroVariance(rates)
    THEN [status |-> 400, detail |-> "Cannot fit curve without variance"]
    ELSE [status |-> 200,
          gridYears |-> grid,
          nRates |-> Len(grid),
          nPolynomialCoefficients |-> degree + 1]

\* ---------------------------------------------------------------- state
Consumers == 1..NumConsumers
\* The interval query parameter, in seconds.
Intervals == {-1, 0, 1}
\* MIN_CURVE_RATE as configured: the default, the floor test's 8.5, and 12.
MinCurveRates == {DefaultMinCurveRate, Dec(85, 10), Dec(12, 1)}

VARIABLES
    env,                \* CURVE_FITTER_MUTATION_SEED in the environment
    MIN_CURVE_RATE,     \* the configured floor
    mutation_rng,       \* _mutation_rng
    base_curve,         \* _base_curve (None before first use)
    current_raw_rates,  \* _current_raw_rates (None before first use)
    lock,               \* _curve_state_lock: its holder, 0 when free
    pc,                 \* each consumer's position
    interval,           \* each consumer's requested interval
    mutation_count,     \* locals of _sample_raw_rates, per consumer
    indices,
    pos,                \* which of indices the loop is at
    delta,
    raw_rates,          \* _build_curve_snapshot's raw_rates, per consumer
    frames,             \* frames each consumer's stream has yielded
    ticket,             \* history: the ordinal of each consumer's Mutator call
    started,            \* history: Mutator calls that have taken the lock
    entry_rates,        \* history: current_raw_rates when the holder began to draw
    initialised,        \* history: how often first-use initialisation ran
    touched,            \* history: the indices written so far
    fit_in,             \* the Fitter alone: its arguments ...
    fit_out             \* ... and its result

shared == <<mutation_rng, base_curve, current_raw_rates, lock>>
locals == <<mutation_count, indices, pos, delta, raw_rates>>
history == <<ticket, started, entry_rates, initialised, touched>>
config == <<env, MIN_CURVE_RATE>>
fitter == <<fit_in, fit_out>>
vars == <<config, shared, pc, interval, locals, frames, history, fitter>>

NoFit == [status |-> 0]

InitMachine ==
    /\ base_curve = None
    /\ current_raw_rates = None
    /\ lock = 0
    /\ pc = [c \in Consumers |->
                IF mutation_rng = AnyRng /\ c # 1 THEN "absent" ELSE "idle"]
    /\ interval = [c \in Consumers |-> 0]
    /\ mutation_count = [c \in Consumers |-> 0]
    /\ indices = [c \in Consumers |-> <<>>]
    /\ pos = [c \in Consumers |-> 0]
    /\ delta = [c \in Consumers |-> Zero]
    /\ raw_rates = [c \in Consumers |-> None]
    /\ frames = [c \in Consumers |-> 0]
    /\ ticket = [c \in Consumers |-> 0]
    /\ started = 0
    /\ entry_rates = None
    /\ initialised = 0
    /\ touched = {}

\* Module import (lines 43-55): the seed read from the environment, the
\* generator made from it.  A test may then put its own floor and its own
\* random source in place; the tests drive the program from one thread, so
\* with the stand-in source there is one consumer, and with the seeded
\* generator there are NumConsumers of them.
Init ==
    /\ env \in SeedEnvs
    /\ MIN_CURVE_RATE \in MinCurveRates
    /\ mutation_rng \in {SeededRng(_MUTATION_SEED(env)), AnyRng}
    /\ mutation_rng = AnyRng => env = EnvUnset
    /\ mutation_rng # AnyRng => MIN_CURVE_RATE = DefaultMinCurveRate
    /\ InitMachine
    /\ fit_in = <<>>
    /\ fit_out = NoFit

\* -------------------------------------------------------------- actions
\* stream_swap_curves(interval): HTTP 400 for a non-positive interval,
\* otherwise the response starts sse_gen(interval).
\* Mutant: only a negative interval is rejected.
Rejects_NegativeOnly(iv) == iv < 0
Rejects(iv) == iv <= 0

StreamRequest(c) ==
    /\ pc[c] = "idle"
    /\ \E iv \in Intervals :
        /\ interval' = [interval EXCEPT ![c] = iv]
        /\ pc' = [pc EXCEPT ![c] = IF Rejects(iv) THEN "rejected" ELSE "tick"]
    /\ UNCHANGED <<config, shared, locals, frames, history, fitter>>

\* Mutant: the lock excludes nobody.
LockFree_Always(l) == TRUE
\* with _curve_state_lock: the lock is taken only when it is free.
LockFree(l) == l = 0

\* sse_gen's loop calls _build_curve_snapshot, which calls _sample_raw_rates,
\* which takes the lock.
Acquire(c) ==
    /\ pc[c] = "tick"
    /\ started < MaxCalls
    /\ LockFree(lock)
    /\ lock' = c
    /\ pc' = [pc EXCEPT ![c] = "init"]
    /\ started' = started + 1
    /\ ticket' = [ticket EXCEPT ![c] = started + 1]
    /\ UNCHANGED <<config, mutation_rng, base_curve, current_raw_rates, interval,
                   locals, frames, entry_rates, initialised, touched, fitter>>

\* lines 72-74: first-use initialisation.
NeedsInit(base, current) == base = None \/ current = None

EnsureState(c) ==
    /\ pc[c] = "init"
    /\ IF NeedsInit(base_curve, current_raw_rates)
       THEN /\ base_curve' = _base_em_curve(NumTenors)
            /\ current_raw_rates' = _base_em_curve(NumTenors)
            /\ initialised' = initialised + 1
       ELSE UNCHANGED <<base_curve, current_raw_rates, initialised>>
    /\ entry_rates' = current_raw_rates'
    /\ pc' = [pc EXCEPT ![c] = "count"]
    /\ UNCHANGED <<config, mutation_rng, lock, interval, locals, frames,
                   ticket, started, touched, fitter>>

\* lines 76-78
DrawCount(c) ==
    /\ pc[c] = "count"
    /\ \E d \in RngIntegers(mutation_rng, 1, MAX_MUTATED_POINTS + 1) :
        /\ mutation_count' = [mutation_count EXCEPT ![c] = d[1]]
        /\ mutation_rng' = d[2]
    /\ pc' = [pc EXCEPT ![c] = "choice"]
    /\ UNCHANGED <<config, base_curve, current_raw_rates, lock, interval, indices,
                   pos, delta, raw_rates, frames, history, fitter>>

\* lines 79-81
DrawIndices(c) ==
    /\ pc[c] = "choice"
    /\ \E d \in RngChoice(mutation_rng, NumTenors, mutation_count[c]) :
        /\ indices' = [indices EXCEPT ![c] = d[1]]
        /\ mutation_rng' = d[2]
    /\ pos' = [pos EXCEPT ![c] = 1]
    /\ pc' = [pc EXCEPT ![c] = "delta"]
    /\ UNCHANGED <<config, base_curve, current_raw_rates, lock, interval,
                   mutation_count, delta, raw_rates, frames, history, fitter>>

\* lines 83-88: the loop takes the next index and draws its delta.
DrawDelta(c) ==
    /\ pc[c] = "delta"
    /\ pos[c] <= Len(indices[c])
    /\ \E d \in RngUniform(mutation_rng) :
        /\ delta' = [delta EXCEPT ![c] = d[1]]
        /\ mutation_rng' = d[2]
    /\ pc' = [pc EXCEPT ![c] = "write"]
    /\ UNCHANGED <<config, base_curve, current_raw_rates, lock, interval,
                   mutation_count, indices, pos, raw_rates, frames, history, fitter>>

\* Mutant: the write lands on the next tenor instead of the selected one.
SelectedIndex_Neighbour(idxs, p) == (idxs[p] % NumTenors) + 1
\* line 83: the index the loop is at.
SelectedIndex(idxs, p) == idxs[p]

\* lines 84-85, 89-94: the selected point is rewritten.
WriteRate(c) ==
    /\ pc[c] = "write"
    /\ LET idx == SelectedIndex(indices[c], pos[c]) IN
        /\ current_raw_rates' =
              [current_raw_rates EXCEPT
                 ![idx] = MutatedRate(current_raw_rates[idx], base_curve[idx],
                                      delta[c], MIN_CURVE_RATE)]
        /\ touched' = touched \cup {idx}
    /\ pos' = [pos EXCEPT ![c] = pos[c] + 1]
    /\ delta' = [delta EXCEPT ![c] = Zero]
    /\ pc' = [pc EXCEPT ![c] = "delta"]
    /\ UNCHANGED <<config, mutation_rng, base_curve, lock, interval, mutation_count,
                   indices, raw_rates, frames, ticket, started, entry_rates,
                   initialised, fitter>>

\* line 96 and the end of the with block: the copy is returned, the lock released.
ReturnCopy(c) ==
    /\ pc[c] = "delta"
    /\ pos[c] > Len(indices[c])
    /\ raw_rates' = [raw_rates EXCEPT ![c] = current_raw_rates]
    /\ lock' = 0
    /\ entry_rates' = None
    /\ mutation_count' = [mutation_count EXCEPT ![c] = 0]
    /\ indices' = [indices EXCEPT ![c] = <<>>]
    /\ pos' = [pos EXCEPT ![c] = 0]
    /\ pc' = [pc EXCEPT ![c] = "fit"]
    /\ UNCHANGED <<config, mutation_rng, base_curve, current_raw_rates, interval,
                   delta, frames, ticket, started, initialised, touched, fitter>>

\* lines 119-125 and 131-132: the fit; a rejection ends the stream with the
\* HTTPException, otherwise the snapshot is serialised and yielded.
FitAndYield(c) ==
    /\ pc[c] = "fit"
    /\ LET fitted == _fit_curve(TENOR_YEARS, raw_rates[c], FITTED_GRID, FitDegree) IN
        IF fitted.status = 400
        THEN /\ pc' = [pc EXCEPT ![c] = "failed"]
             /\ UNCHANGED frames
        ELSE /\ pc' = [pc EXCEPT ![c] = "sleep"]
             /\ frames' = [frames EXCEPT ![c] = frames[c] + 1]
    /\ raw_rates' = [raw_rates EXCEPT ![c] = None]
    /\ ticket' = [ticket EXCEPT ![c] = 0]
    /\ UNCHANGED <<config, shared, interval, mutation_count, indices, pos, delta,
                   started, entry_rates, initialised, touched, fitter>>

\* line 133: await asyncio.sleep(interval), then the next tick.
Sleep(c) ==
    /\ pc[c] = "sleep"
    /\ pc' = [pc EXCEPT ![c] = "tick"]
    /\ UNCHANGED <<config, shared, interval, locals, frames, history, fitter>>

Next ==
    \E c \in Consumers :
        \/ StreamRequest(c)
        \/ Acquire(c)
        \/ EnsureState(c)
        \/ DrawCount(c)
        \/ DrawIndices(c)
        \/ DrawDelta(c)
        \/ WriteRate(c)
        \/ ReturnCopy(c)
        \/ FitAndYield(c)
        \/ Sleep(c)

Spec == Init /\ [][Next]_vars

\* ------------------------------------------------------ the Fitter alone
\* _fit_curve as a pure function, on arguments drawn from small sets.
MaxFitLen == 3
MaxFitRate == 12
FitRates == {Dec(k, 1) : k \in 1..MaxFitRate}
FitTenors == {Dec(k, 1) : k \in 1..2}
FitGrids == {<<One>>, <<One, Dec(2, 1), Dec(3, 1)>>}
FitDegrees == {1, FitDegree}

SeqsOf(S, n) == [1..n -> S]

FitInputs ==
    UNION {[tenors : SeqsOf(FitTenors, n), rates : SeqsOf(FitRates, n),
            grid : FitGrids, degree : FitDegrees] : n \in 1..MaxFitLen}

InitFit ==
    /\ env = EnvUnset
    /\ MIN_CURVE_RATE = DefaultMinCurveRate
    /\ mutation_rng = SeededRng(_MUTATION_SEED(env))
    /\ InitMachine
    /\ fit_in \in FitInputs
    /\ fit_out = NoFit

FitCall ==
    /\ fit_out = NoFit
    /\ fit_out' = _fit_curve(fit_in.tenors, fit_in.rates, fit_in.grid, fit_in.degree)
    /\ UNCHANGED <<config, shared, pc, interval, locals, frames, history, fit_in>>

SpecFit == InitFit /\ [][FitCall]_vars

\* --------------------------------------- the Mutator as a pure function
\* _sample_raw_rates run from start to end by one caller: st holds the
\* shared state [base, current, rng]; the result is the state it leaves
\* (the returned copy is its current).
RECURSIVE MutateSelected(_, _, _, _)
MutateSelected(st, idxs, p, floor) ==
    IF p > Len(idxs) THEN st
    ELSE LET d   == CHOOSE d \in RngUniform(st.rng) : TRUE
             idx == idxs[p]
         IN  MutateSelected(
                 [st EXCEPT !.rng = d[2],
                            !.current[idx] =
                                MutatedRate(st.current[idx], st.base[idx], d[1], floor)],
                 idxs, p + 1, floor)

SampleRawRates(st, floor) ==
    LET st1 == IF NeedsInit(st.base, st.current)
               THEN [st EXCEPT !.base = _base_em_curve(NumTenors),
                               !.current = _base_em_curve(NumTenors)]
               ELSE st
        k   == CHOOSE d \in RngIntegers(st1.rng, 1, MAX_MUTATED_POINTS + 1) : TRUE
        ch  == CHOOSE d \in RngChoice(k[2], NumTenors, k[1]) : TRUE
    IN  MutateSelected([st1 EXCEPT !.rng = ch[2]], ch[1], 1, floor)

\* The shared state after n calls made one after the other by a process
\* started with `seed`.
RECURSIVE Replay(_, _, _)
Replay(seed, n, floor) ==
    IF n = 0 THEN [base |-> None, current |-> None, rng |-> SeededRng(seed)]
    ELSE SampleRawRates(Replay(seed, n - 1, floor), floor)

\* ================================================================ claims
Critical == {"init", "count", "choice", "delta", "write"}
DefaultConstants == MIN_CURVE_RATE = DefaultMinCurveRate
Range(f) == {f[i] : i \in DOMAIN f}
AllEqual(r) == \A i \in DOMAIN r : r[i] = r[1]
\* The indices the holder c has rewritten in its call so far.
Written(c) == {indices[c][j] : j \in 1..(pos[c] - 1)}
Changed(old, new) == {i \in DOMAIN old : new[i] # old[i]}

\* The band of the spec, written with its own literals.
BandLowFactor == Dec(80, 100)
BandHighFactor == Dec(120, 100)
BandLow(b, floor) == FMax(FMul(b, BandLowFactor), floor)
BandHigh(b) == FMul(b, BandHighFactor)
InBand(r, b, floor) == FLeq(BandLow(b, floor), r) /\ FLeq(r, BandHigh(b))

\* C1: with the default constants, every entry i of Current Raw Rates and of
\* every returned copy lies in [max(base[i]*0.8, MIN_CURVE_RATE), base[i]*1.2],
\* from initialisation on and after every Mutator step, selected or not.
C1_RatesStayInBand ==
    DefaultConstants /\ current_raw_rates # None =>
        /\ \A i \in 1..NumTenors :
              InBand(current_raw_rates[i], base_curve[i], MIN_CURVE_RATE)
        /\ \A c \in Consumers : raw_rates[c] # None =>
              \A i \in 1..NumTenors :
                  InBand(raw_rates[c][i], base_curve[i], MIN_CURVE_RATE)

\* C1 witness: a returned copy in which a rewritten point sits on its upper
\* bound, away from its base value.
C1_Witness ==
    /\ DefaultConstants
    /\ \E c \in Consumers : /\ raw_rates[c] # None
                            /\ \E i \in touched :
                                  /\ raw_rates[c][i] = BandHigh(base_curve[i])
                                  /\ raw_rates[c][i] # base_curve[i]

\* C2 (as claimed): whatever MIN_CURVE_RATE is configured, no entry of Current
\* Raw Rates is ever below it, from first-use initialisation on.
C2_NeverBelowFloor ==
    current_raw_rates # None =>
        \A i \in 1..NumTenors : FLeq(MIN_CURVE_RATE, current_raw_rates[i])

\* C3: the Mutator's sequence runs under one exclusive lock: at most one
\* caller is inside it, what differs from the state at its entry is exactly
\* what the holder itself has rewritten (1..2 points), first-use
\* initialisation runs once, and the copy a caller returns is the shared
\* state at the moment it releases the lock.
C3_State ==
    /\ \A c, d \in Consumers : pc[c] \in Critical /\ pc[d] \in Critical => c = d
    /\ \A c \in Consumers : pc[c] \in Critical <=> lock = c
    /\ initialised <= 1
    /\ current_raw_rates # None => initialised = 1
    /\ \A c \in Consumers : pc[c] \in Critical \ {"init"} =>
          /\ entry_rates # None
          /\ Changed(entry_rates, current_raw_rates) \subseteq Written(c)
          /\ Cardinality(Written(c)) <= MAX_MUTATED_POINTS

C3_Step ==
    \A c \in Consumers :
        pc[c] \in Critical /\ pc'[c] \notin Critical =>
            /\ pc'[c] = "fit"
            /\ raw_rates'[c] = current_raw_rates
            /\ current_raw_rates' = current_raw_rates
            /\ Cardinality(Written(c)) >= 1
            /\ lock' = 0

C3_ExclusiveMutator == [](C3_State) /\ [][C3_Step]_vars

\* C3 witness: a second caller is inside the sequence, has rewritten a point,
\* while the first caller holds its returned copy.
C3_Witness ==
    \E c, d \in Consumers :
        /\ c # d
        /\ pc[c] = "fit" /\ raw_rates[c] # None
        /\ pc[d] = "delta" /\ Written(d) # {}
        /\ raw_rates[c] # current_raw_rates

\* C4: a stream request with interval <= 0 is answered 400 before the loop
\* starts: the consumer never reaches the Snapshot Builder, gets no frame, and
\* the step that rejects it leaves Base Curve, Current Raw Rates and the
\* random source as they were.
C4_State ==
    \A c \in Consumers :
        /\ pc[c] \notin {"idle", "absent"} /\ interval[c] <= 0 => pc[c] = "rejected"
        /\ pc[c] = "rejected" => /\ frames[c] = 0
                                 /\ ticket[c] = 0
                                 /\ raw_rates[c] = None
                                 /\ lock # c

C4_Step ==
    \A c \in Consumers :
        /\ pc[c] = "rejected" => pc'[c] = "rejected"
        /\ pc[c] = "idle" /\ pc'[c] = "rejected" =>
              /\ base_curve' = base_curve
              /\ current_raw_rates' = current_raw_rates
              /\ mutation_rng' = mutation_rng
              /\ frames' = frames
              /\ started' = started

C4_NonPositiveIntervalRejected == [](C4_State) /\ [][C4_Step]_vars

\* C4 witness: a consumer rejected for interval 0 while the shared state
\* exists and the generator has been drawn from.
C4_Witness ==
    \E c \in Consumers :
        /\ pc[c] = "rejected" /\ interval[c] = 0
        /\ current_raw_rates # None
        /\ mutation_rng # SeededRng(_MUTATION_SEED(env))

\* C5: in build_snapshot the Mutator has committed before the Fitter runs;
\* the only failure is the Fitter's rejection of the returned rates; on it no
\* frame is produced, the stream ends in the failure, and the mutation stays in
\* the shared Current Raw Rates (no rollback).
C5_State ==
    \A c \in Consumers :
        pc[c] = "fit" => /\ raw_rates[c] # None
                         /\ lock # c
                         /\ (ticket[c] = started /\ lock = 0
                                => current_raw_rates = raw_rates[c])

C5_Step ==
    \A c \in Consumers :
        /\ pc[c] = "failed" => pc'[c] = "failed"
        /\ pc[c] # "failed" /\ pc'[c] = "failed" =>
              /\ pc[c] = "fit"
              /\ ZeroVariance(raw_rates[c])
              /\ frames' = frames
              /\ current_raw_rates' = current_raw_rates
              /\ base_curve' = base_curve
              /\ (ticket[c] = started /\ lock = 0
                     => current_raw_rates' = raw_rates[c])
        /\ pc[c] = "fit" /\ pc'[c] # "fit" /\ ~ZeroVariance(raw_rates[c]) =>
              /\ pc'[c] = "sleep"
              /\ frames'[c] = frames[c] + 1

C5_FailedFitKeepsMutation == [](C5_State) /\ [][C5_Step]_vars

\* C5 witness: a stream ended by the Fitter's rejection, with rewritten points
\* left in the shared state.
C5_Witness ==
    \E c \in Consumers :
        /\ pc[c] = "failed"
        /\ frames[c] = 0
        /\ current_raw_rates # base_curve
        /\ AllEqual(current_raw_rates)

\* C6 (as claimed): for equal-length non-empty tenors and rates, fit fails
\* with the 400 error exactly when all rates are identical, whatever the
\* tenors, grid and degree; otherwise it returns degree+1 coefficients and one
\* fitted rate per grid point.
C6_FitFailsIffRatesIdentical ==
    fit_out # NoFit =>
        /\ (fit_out.status = 400) <=> AllEqual(fit_in.rates)
        /\ fit_out.status # 400 =>
              /\ fit_out.status = 200
              /\ fit_out.nPolynomialCoefficients = fit_in.degree + 1
              /\ fit_out.nRates = Len(fit_in.grid)

\* The seed a process started with `e` in its environment is to use.
ExpectedSeed(e) == CASE e = "7" -> 7 [] e = "42" -> 42 [] OTHER -> 275352

\* C7: with the seeded generator, the copy returned by the n-th Mutator call
\* is the one n calls made one after the other from the seed return, whichever
\* consumer makes it and however the consumers interleave; an unset or
\* unparsable seed counts as 275352.  Two runs with the same seed therefore
\* return the same sequences.
C7_SeedDeterminesResults ==
    mutation_rng.kind = "seeded" =>
        /\ \A c \in Consumers : pc[c] = "fit" =>
              raw_rates[c] =
                  Replay(ExpectedSeed(env), ticket[c], MIN_CURVE_RATE).current
        /\ lock = 0 =>
              /\ mutation_rng = Replay(ExpectedSeed(env), started, MIN_CURVE_RATE).rng
              /\ current_raw_rates =
                    Replay(ExpectedSeed(env), started, MIN_CURVE_RATE).current

\* C7 witness: under an unparsable seed, the second call was made by another
\* consumer than the first and has returned.
C7_Witness ==
    /\ env = "seven"
    /\ \E c, d \in Consumers :
          /\ c # d
          /\ pc[c] = "fit" /\ ticket[c] = 2
          /\ frames[d] = 1
          /\ raw_rates[c] # base_curve

\* C8: a write sets the selected point to
\* clamp(current*(1+delta), max(base*0.80, MIN_CURVE_RATE), base*1.20), where
\* current is what the earlier calls left (the base value while the point is
\* untouched); with delta = -MAX_MUTATION_FRACTION on a point already
\* rewritten the new value is not greater than the old one.
C8_Step ==
    \A c \in Consumers :
        pc[c] = "write" /\ pc'[c] # "write" =>
            LET idx  == indices[c][pos[c]]
                old  == current_raw_rates[idx]
                b    == base_curve[idx]
                new  == current_raw_rates'[idx]
            IN  /\ new = FMin(FMax(FMul(old, FAdd(One, delta[c])),
                                   BandLow(b, MIN_CURVE_RATE)),
                              BandHigh(b))
                /\ idx \notin touched => old = b
                /\ idx \in touched /\ delta[c] = FNeg(MAX_MUTATION_FRACTION)
                      => FLeq(new, old)

C8_WalkContinuesFromCurrent == [][C8_Step]_vars

\* C8 witness: a point rewritten before, now away from its base value, is
\* about to be rewritten with delta = -MAX_MUTATION_FRACTION.
C8_Witness ==
    \E c \in Consumers :
        /\ pc[c] = "write"
        /\ delta[c] = FNeg(MAX_MUTATION_FRACTION)
        /\ indices[c][pos[c]] \in touched
        /\ current_raw_rates[indices[c][pos[c]]] # base_curve[indices[c][pos[c]]]

\* C9: a call selects k distinct indices, 1 <= k <= MAX_MUTATED_POINTS, and
\* writes only those: what differs from the state at its entry lies among the
\* indices it has written, so at most 2 entries; the length stays the Tenor
\* Grid's; Base Curve never changes after its first computation.
C9_State ==
    /\ current_raw_rates # None => Len(current_raw_rates) = NumTenors
    /\ base_curve # None => Len(base_curve) = NumTenors
    /\ \A c \in Consumers :
          /\ raw_rates[c] # None => Len(raw_rates[c]) = NumTenors
          /\ pc[c] \in {"delta", "write"} =>
                /\ mutation_count[c] \in 1..MAX_MUTATED_POINTS
                /\ Len(indices[c]) = mutation_count[c]
                /\ Range(indices[c]) \subseteq 1..NumTenors
                /\ Cardinality(Range(indices[c])) = Len(indices[c])
                /\ Changed(entry_rates, current_raw_rates) \subseteq Written(c)
                /\ Cardinality(Changed(entry_rates, current_raw_rates))
                      <= MAX_MUTATED_POINTS

C9_Step ==
    /\ base_curve # None => base_curve' = base_curve
    /\ \A i \in 1..NumTenors :
          current_raw_rates # None /\ current_raw_rates'[i] # current_raw_rates[i]
              => \E c \in Consumers : /\ pc[c] = "write"
                                      /\ indices[c][pos[c]] = i

C9_OnlySelectedWritten == [](C9_State) /\ [][C9_Step]_vars

\* C9 witness: a call that selected two points has rewritten both, and both
\* differ from the state at its entry.
C9_Witness ==
    \E c \in Consumers :
        /\ pc[c] = "delta"
        /\ Cardinality(Written(c)) = 2
        /\ Changed(entry_rates, current_raw_rates) = Written(c)
        /\ initialised = 1 /\ started = 2

\* C10 (as claimed): with the default constants no reachable Current Raw
\* Rates has all rates equal, and build_snapshot never fails.
C10_NeverDegenerate ==
    DefaultConstants =>
        /\ current_raw_rates # None => ~AllEqual(current_raw_rates)
        /\ \A c \in Consumers : pc[c] # "failed"

\* C10 (amended): with the default constants a point that was never rewritten
\* keeps its base value; the base values being pairwise distinct, the state
\* initialised from the Base Curve is not degenerate, and Current Raw Rates can
\* have all rates equal, and build_snapshot fail, only once all points but at
\* most one have been rewritten, which takes at least
\* (size - 1) / MAX_MUTATED_POINTS calls.
C10_DegenerateOnlyAfterRewrites ==
    DefaultConstants /\ current_raw_rates # None =>
        /\ \A i \in 1..NumTenors :
              i \notin touched => current_raw_rates[i] = base_curve[i]
        /\ (AllEqual(current_raw_rates)
              \/ \E c \in Consumers : pc[c] = "failed") =>
              /\ Cardinality(touched) >= NumTenors - 1
              /\ started * MAX_MUTATED_POINTS >= NumTenors - 1

\* C10 witness: default constants, all rates equal, and the stream failed.
C10_Witness ==
    /\ DefaultConstants
    /\ current_raw_rates # None
    /\ AllEqual(current_raw_rates)
    /\ \E c \in Consumers : pc[c] = "failed"

====
